---- MODULE Spec2Model ----
(***************************************************************************)
(* Trello -> ICS Shimmy (src/app.py): the three Flask handlers build_ics,  *)
(* get_auth_token_callback and get_auth_token, the two upstream fetches    *)
(* get_lists_by_id and get_cards, and the pure helper chunk_string.        *)
(*                                                                         *)
(* Text is a sequence of one-character strings.  An optional value (a      *)
(* configuration entry that may be unset, a JSON field that may be null)   *)
(* is <<>> when falsy and <<v>> otherwise.  A line of the calendar text is *)
(* a record [tag, val]; the body of a feed response is the sequence of its *)
(* lines, which the code joins with "\n".                                  *)
(***************************************************************************)
EXTENDS Integers, Sequences, FiniteSets, TLC

VARIABLES
    config,        \* app.config: ICS_KEY, TRELLO_ACCESS_TOKEN, TRELLO_ACCESS_KEY
    pc,            \* position of the request's handling unit
    route,         \* which of the three routes the request matched
    access_key,    \* the <access_key> path segment
    ics_payload,   \* build_ics: the list of lines built so far
    lists_by_id,   \* build_ics: the dict returned by get_lists_by_id()
    cards,         \* build_ics: the list returned by get_cards()
    idx,           \* build_ics: position of the for loop in cards
    response,      \* what the request returns to the client
    trace,         \* the steps the request has taken, in order
    string,        \* chunk_string: argument
    length,        \* chunk_string: argument
    chunks         \* chunk_string: <<>> before the call, <<result>> after it

vars == <<config, pc, route, access_key, ics_payload, lists_by_id, cards, idx,
          response, trace, string, length, chunks>>

reqVars == <<config, pc, route, access_key, ics_payload, lists_by_id, cards, idx,
             response, trace>>

-----------------------------------------------------------------------------
(* Bounds of the model *)

MaxCards == 2

MaxStrLen == 150

MaxChunkLen == 80

-----------------------------------------------------------------------------
(* chunk_string *)

ShortCircuit == 73

DescLimit == 73

Min(a, b) == IF a <= b THEN a ELSE b

\* range(0, n, step) for step > 0: the number of values it yields
RangeCount(n, step) == (n + step - 1) \div step

\* chunk_string with the slice written string[i:i + length - 1]
chunk_string_short_slice(s, len) ==
    IF Len(s) <= ShortCircuit
    THEN <<s>>
    ELSE [k \in 1..RangeCount(Len(s), len) |->
            SubSeq(s, (k - 1) * len + 1, Min(k * len - 1, Len(s)))]

chunk_string(s, len) ==
    IF Len(s) <= ShortCircuit
    THEN <<s>>
    ELSE [k \in 1..RangeCount(Len(s), len) |->
            SubSeq(s, (k - 1) * len + 1, Min(k * len, Len(s)))]

RECURSIVE Join(_, _)
\* sep.join(parts)
Join(sep, parts) ==
    IF Len(parts) = 0 THEN <<>>
    ELSE IF Len(parts) = 1 THEN parts[1]
    ELSE parts[1] \o sep \o Join(sep, Tail(parts))

RECURSIVE Concat(_)
\* "".join(parts), halving the list so that the recursion stays shallow
Concat(parts) ==
    IF Len(parts) = 0 THEN <<>>
    ELSE IF Len(parts) = 1 THEN parts[1]
    ELSE LET mid == Len(parts) \div 2
         IN  Concat(SubSeq(parts, 1, mid)) \o Concat(SubSeq(parts, mid + 1, Len(parts)))

-----------------------------------------------------------------------------
(* datetime: strptime(..., "%Y-%m-%dT%H:%M:%S.%f%z"), astimezone(utc),     *)
(* replace(hour=0, ...), strftime("%Y%m%dT%H%M%SZ").                       *)
(* A timestamp string is the record of its fields; wf says whether the     *)
(* string matches the format (strptime raises ValueError when it does not);*)
(* off is the UTC offset in minutes.                                       *)

IsLeap(y) == y % 4 = 0 /\ (y % 100 # 0 \/ y % 400 = 0)

DaysInMonth(y, m) ==
    IF m = 2 THEN (IF IsLeap(y) THEN 29 ELSE 28)
    ELSE IF m \in {4, 6, 9, 11} THEN 30 ELSE 31

\* datetime._DAYS_BEFORE_MONTH
DaysBeforeMonthTable == <<0, 31, 59, 90, 120, 151, 181, 212, 243, 273, 304, 334>>

DaysInMonthTable == <<31, 28, 31, 30, 31, 30, 31, 31, 30, 31, 30, 31>>

DaysBeforeYear(y) == (y - 1) * 365 + (y - 1) \div 4 - (y - 1) \div 100 + (y - 1) \div 400

DaysBeforeMonth(y, m) ==
    DaysBeforeMonthTable[m] + (IF m > 2 /\ IsLeap(y) THEN 1 ELSE 0)

\* date.toordinal(): 0001-01-01 is day 1
Ymd2Ord(y, m, d) == DaysBeforeYear(y) + DaysBeforeMonth(y, m) + d

\* date.fromordinal()
Ord2Ymd(ord) ==
    LET n0   == ord - 1
        n400 == n0 \div 146097
        r400 == n0 % 146097
        n100 == r400 \div 36524
        r100 == r400 % 36524
        n4   == r100 \div 1461
        r4   == r100 % 1461
        n1   == r4 \div 365
        n    == r4 % 365
        year == n400 * 400 + 1 + n100 * 100 + n4 * 4 + n1
    IN  IF n1 = 4 \/ n100 = 4
        THEN [y |-> year - 1, mo |-> 12, d |-> 31]
        ELSE
          LET leapyear == n1 = 3 /\ (n4 # 24 \/ n100 = 3)
              month0   == (n + 50) \div 32
              prec0    == DaysBeforeMonthTable[month0]
                            + (IF month0 > 2 /\ leapyear THEN 1 ELSE 0)
              month    == IF prec0 > n THEN month0 - 1 ELSE month0
              prec     == IF prec0 > n
                          THEN prec0 - (DaysInMonthTable[month]
                                         + (IF month = 2 /\ leapyear THEN 1 ELSE 0))
                          ELSE prec0
          IN  [y |-> year, mo |-> month, d |-> n - prec + 1]

\* .astimezone(timezone.utc): the same instant with offset 0
AsTimezoneUtc(t) ==
    LET secs   == t.h * 3600 + t.mi * 60 + t.s - t.off * 60
        days   == secs \div 86400
        rem    == secs % 86400
        ymd    == Ord2Ymd(Ymd2Ord(t.y, t.mo, t.d) + days)
    IN  [wf |-> t.wf, y |-> ymd.y, mo |-> ymd.mo, d |-> ymd.d,
         h |-> rem \div 3600, mi |-> (rem % 3600) \div 60, s |-> rem % 60,
         us |-> t.us, off |-> 0]

\* .replace(hour=0, minute=0, second=0, microsecond=0)
ReplaceMidnight(t) == [t EXCEPT !.h = 0, !.mi = 0, !.s = 0, !.us = 0]

\* .strftime("%Y%m%dT%H%M%SZ"): the six printed fields; microseconds and
\* the offset are not printed
Strftime(t) == <<t.y, t.mo, t.d, t.h, t.mi, t.s>>

\* lines 108-113 with replace() applied before astimezone()
StartDateLocalMidnight(t) == Strftime(AsTimezoneUtc(ReplaceMidnight(t)))

\* lines 108-113
StartDate(t) == Strftime(ReplaceMidnight(AsTimezoneUtc(t)))

\* lines 114-118 and 123-127
DueDate(t) == Strftime(AsTimezoneUtc(t))

-----------------------------------------------------------------------------
(* Upstream data: what the Trello API may answer *)

Opt(S) == {<<>>} \cup {<<v>> : v \in S}

Stamp(y, mo, d, h, mi, s, off) ==
    [wf |-> TRUE, y |-> y, mo |-> mo, d |-> d, h |-> h, mi |-> mi, s |-> s,
     us |-> 0, off |-> off]

\* "2024-03-10T09:00:00.000000+00:00"
GoodDue == Stamp(2024, 3, 10, 9, 0, 0, 0)

\* "2024-03-08T23:30:00.000000+02:00"
GoodStart == Stamp(2024, 3, 8, 23, 30, 0, 120)

\* a string that does not match the format, e.g. "2024-03-10"
BadStamp == [GoodDue EXCEPT !.wf = FALSE]

ListIds == {"L1", "L2"}

ListName(id) == IF id = "L1" THEN <<"W", "o", "r", "k">> ELSE <<"H", "o", "m", "e">>

\* the JSON array of lists: one object per id of ids
ListsJson(ids) == [i \in ids |-> [id |-> i, name |-> ListName(i)]]

CardIds == {<<"C", "1">>, <<"C", "2">>}

CardName(id) == IF id = <<"C", "1">> THEN <<"S", "h", "i", "p">> ELSE <<"T", "e", "s", "t">>

CardUrl(id) == <<"h", "t", "t", "p", "s", ":", "/", "/", "t", ".", "c", "o", "/">> \o id

LongDesc == [i \in 1..80 |-> IF i % 10 = 0 THEN " " ELSE "d"]

CardDesc(id) == IF id = <<"C", "1">> THEN <<>> ELSE LongDesc

Card(id, idList, due, start) ==
    [id |-> id, name |-> CardName(id), desc |-> CardDesc(id), url |-> CardUrl(id),
     due |-> due, start |-> start, idList |-> idList]

\* the card objects of the ordinary runs
Cards ==
    {Card(id, l, due, start) :
        id \in CardIds, l \in ListIds,
        due \in Opt({GoodDue, BadStamp}), start \in Opt({GoodStart})}

\* the sequences over S of length 0..n
SeqsUpTo(S, n) == UNION {[1..k -> S] : k \in 0..n}

HttpStatuses == {200, 401, 500}

\* r.raise_for_status() raises HTTPError for 4xx and 5xx
RaisesForStatus(status) == status >= 400 /\ status < 600

-----------------------------------------------------------------------------
(* Event mapping: the body of the for loop of build_ics *)

Line(tag, val) == [tag |-> tag, val |-> val]

CardUrlLabel == <<"C", "a", "r", "d", " ", "U", "R", "L", ":", " ">>

\* the two-character sequences "\\n" "\\n" of the f-string of line 99
EscapedBreaks == <<"\\", "n", "\\", "n">>

\* "\n ": a line break and one space
Continuation == <<"\n", " ">>

Description(card) ==
    IF card.desc # <<>>
    THEN Join(Continuation,
              chunk_string(card.desc \o EscapedBreaks \o CardUrlLabel \o card.url, DescLimit))
    ELSE Join(Continuation, chunk_string(CardUrlLabel \o card.url, DescLimit))

\* line 93 testing card["desc"] instead of card["due"] as well
SkipCardNoDesc(card) == card.due = <<>> \/ card.desc = <<>>

\* line 93 skipping the cards of an unknown list as well
SkipCardUnknownList(card) == card.due = <<>> \/ card.idList \notin DOMAIN lists_by_id

\* line 93: not card["due"]
SkipCard(card) == card.due = <<>>

\* the first exception the loop body raises for a card, "" when it raises none
MapError(card, lists) ==
    IF card.idList \notin DOMAIN lists THEN "KeyError"
    ELSE IF card.start # <<>> /\ ~card.start[1].wf THEN "ValueError"
    ELSE IF ~card.due[1].wf THEN "ValueError"
    ELSE ""

\* lines 107-130 with DURATION appended after the if/else
TimingLinesAlwaysDuration(card) ==
    IF card.start # <<>>
    THEN << Line("DTSTAMP", StartDate(card.start[1])),
            Line("DTSTART", StartDate(card.start[1])),
            Line("DTEND", DueDate(card.due[1])),
            Line("DURATION", <<"P", "T", "1", "H">>) >>
    ELSE << Line("DTSTAMP", DueDate(card.due[1])),
            Line("DTSTART", DueDate(card.due[1])),
            Line("DURATION", <<"P", "T", "1", "H">>) >>

\* lines 107-130
TimingLines(card) ==
    IF card.start # <<>>
    THEN << Line("DTSTAMP", StartDate(card.start[1])),
            Line("DTSTART", StartDate(card.start[1])),
            Line("DTEND", DueDate(card.due[1])) >>
    ELSE << Line("DTSTAMP", DueDate(card.due[1])),
            Line("DTSTART", DueDate(card.due[1])),
            Line("DURATION", <<"P", "T", "1", "H">>) >>

\* lines 96-131: the lines one card appends when nothing raises
VEvent(card, lists) ==
    << Line("BEGIN", <<"VEVENT">>),
       Line("DESCRIPTION", Description(card)),
       Line("URL", card.url),
       Line("SUMMARY", card.name \o <<" ", "[">> \o lists[card.idList].name \o <<"]">>),
       Line("UID", card.id \o <<"@", "t", "r", "e", "l", "l", "o", ".", "c", "o", "m">>) >>
    \o TimingLines(card)
    \o << Line("END", <<"VEVENT">>) >>

\* lines 84-88
Header ==
    << Line("BEGIN", <<"VCALENDAR">>),
       Line("VERSION", <<"2.0">>),
       Line("PRODID", <<"-//Infra Bits//Trello -> ICS Shimmy//EN">>),
       Line("REFRESH-INTERVAL", <<"PT5M">>) >>

-----------------------------------------------------------------------------
(* Configuration, requests and responses *)

\* app.config after from_envvar(): an entry is <<>> when unset or empty
Configs ==
    [ICS_KEY : Opt({"k1"}), TRELLO_ACCESS_TOKEN : Opt({"tok"}),
     TRELLO_ACCESS_KEY : Opt({"ak"})]

Routes == {"c", "a", "a_token"}

PathKeys == {"", "k1", "k2"}

ListSets == SUBSET ListIds

NoResponse == [status |-> 0, kind |-> "none", body |-> <<>>]

\* make_response("Not Found", 404)
NotFound == [status |-> 404, kind |-> "text", body |-> "Not Found"]

\* an exception leaves the view function: Flask answers 500 with its own
\* error page, and the lines built so far are dropped with the frame
InternalServerError == [status |-> 500, kind |-> "error", body |-> <<>>]

\* str(value) of a configuration entry, as urlencode() applies it
Str(opt) == IF opt = <<>> THEN "None" ELSE opt[1]

\* access_key != app.config.get("ICS_KEY")
KeyMismatch == <<access_key>> # config.ICS_KEY

Step(s) == trace' = Append(trace, s)

-----------------------------------------------------------------------------
(* The handling unit of one request *)

\* Flask dispatches a GET to the view function of the matching route
Receive(routes, keys) ==
    /\ pc = "idle"
    /\ \E r \in routes, k \in keys :
          /\ route' = r
          /\ access_key' = k
    /\ pc' = "handler"
    /\ trace' = <<>>
    /\ response' = NoResponse
    /\ ics_payload' = <<>>
    /\ lists_by_id' = <<>>
    /\ cards' = <<>>
    /\ idx' = 1
    /\ UNCHANGED <<config, string, length, chunks>>

\* build_ics, lines 79-88: the access gate and the header lines
build_ics_begin ==
    /\ pc = "handler"
    /\ route = "c"
    /\ IF KeyMismatch
       THEN /\ response' = NotFound
            /\ pc' = "done"
            /\ Step("gate_404")
            /\ UNCHANGED ics_payload
       ELSE /\ ics_payload' = Header
            /\ pc' = "lists"
            /\ Step("gate_ok")
            /\ UNCHANGED response
    /\ UNCHANGED <<config, route, access_key, lists_by_id, cards, idx,
                   string, length, chunks>>

\* get_lists_by_id without r.raise_for_status()
get_lists_by_id_no_raise(listSets) ==
    /\ pc = "lists"
    /\ \E status \in HttpStatuses, ids \in listSets :
          IF RaisesForStatus(status)
          THEN /\ lists_by_id' = ListsJson({})
               /\ Step("lists_fail")
          ELSE /\ lists_by_id' = ListsJson(ids)
               /\ Step("lists_ok")
    /\ pc' = "cards"
    /\ UNCHANGED <<config, route, access_key, ics_payload, cards, idx, response,
                   string, length, chunks>>

\* line 90 and get_lists_by_id, lines 58-67
get_lists_by_id(listSets) ==
    /\ pc = "lists"
    /\ \E status \in HttpStatuses, ids \in listSets :
          IF RaisesForStatus(status)
          THEN /\ response' = InternalServerError
               /\ pc' = "done"
               /\ Step("lists_fail")
               /\ UNCHANGED lists_by_id
          ELSE /\ lists_by_id' = ListsJson(ids)
               /\ pc' = "cards"
               /\ Step("lists_ok")
               /\ UNCHANGED response
    /\ UNCHANGED <<config, route, access_key, ics_payload, cards, idx,
                   string, length, chunks>>

\* line 91 and get_cards, lines 46-55
get_cards(jsons) ==
    /\ pc = "cards"
    /\ \E status \in HttpStatuses, json \in jsons :
          IF RaisesForStatus(status)
          THEN /\ response' = InternalServerError
               /\ pc' = "done"
               /\ Step("cards_fail")
               /\ UNCHANGED <<cards, idx>>
          ELSE /\ cards' = json
               /\ idx' = 1
               /\ pc' = "loop"
               /\ Step("cards_ok")
               /\ UNCHANGED response
    /\ UNCHANGED <<config, route, access_key, ics_payload, lists_by_id,
                   string, length, chunks>>

\* the loop body with the exceptions of a card swallowed (try/except: continue)
build_ics_card_swallow ==
    /\ pc = "loop"
    /\ idx <= Len(cards)
    /\ LET card == cards[idx] IN
         IF SkipCard(card)
         THEN /\ Step("skip")
              /\ UNCHANGED ics_payload
         ELSE IF MapError(card, lists_by_id) # ""
         THEN /\ Step("map_fail")
              /\ UNCHANGED ics_payload
         ELSE /\ ics_payload' = ics_payload \o VEvent(card, lists_by_id)
              /\ Step("map")
    /\ idx' = idx + 1
    /\ UNCHANGED <<pc, response>>
    /\ UNCHANGED <<config, route, access_key, lists_by_id, cards, string, length, chunks>>

\* lines 91-131: one iteration of the for loop
build_ics_card ==
    /\ pc = "loop"
    /\ idx <= Len(cards)
    /\ LET card == cards[idx] IN
         IF SkipCard(card)
         THEN /\ idx' = idx + 1
              /\ Step("skip")
              /\ UNCHANGED <<ics_payload, pc, response>>
         ELSE IF MapError(card, lists_by_id) # ""
         THEN /\ response' = InternalServerError
              /\ pc' = "done"
              /\ Step("map_fail")
              /\ UNCHANGED <<ics_payload, idx>>
         ELSE /\ ics_payload' = ics_payload \o VEvent(card, lists_by_id)
              /\ idx' = idx + 1
              /\ Step("map")
              /\ UNCHANGED <<pc, response>>
    /\ UNCHANGED <<config, route, access_key, lists_by_id, cards, string, length, chunks>>

\* lines 133-134: the loop is exhausted
build_ics_end ==
    /\ pc = "loop"
    /\ idx > Len(cards)
    /\ ics_payload' = Append(ics_payload, Line("END", <<"VCALENDAR">>))
    /\ response' = [status |-> 200, kind |-> "calendar", body |-> ics_payload']
    /\ pc' = "done"
    /\ Step("finish")
    /\ UNCHANGED <<config, route, access_key, lists_by_id, cards, idx,
                   string, length, chunks>>

\* get_auth_token_callback without its access gate
get_auth_token_callback_ungated ==
    /\ pc = "handler"
    /\ route = "a_token"
    /\ response' = [status |-> 200, kind |-> "html", body |-> "token page"]
    /\ pc' = "done"
    /\ Step("token_page")
    /\ UNCHANGED <<config, route, access_key, ics_payload, lists_by_id, cards, idx,
                   string, length, chunks>>

\* get_auth_token_callback, lines 138-153
get_auth_token_callback ==
    /\ pc = "handler"
    /\ route = "a_token"
    /\ IF KeyMismatch
       THEN /\ response' = NotFound
            /\ Step("gate_404")
       ELSE /\ response' = [status |-> 200, kind |-> "html", body |-> "token page"]
            /\ Step("token_page")
    /\ pc' = "done"
    /\ UNCHANGED <<config, route, access_key, ics_payload, lists_by_id, cards, idx,
                   string, length, chunks>>

\* lines 168-177: the redirect to https://api.trello.com/1/authorize
AuthorizeRedirect(is_secure) ==
    [status |-> 302, kind |-> "redirect",
     body |-> [key |-> Str(config.TRELLO_ACCESS_KEY),
               return_url |-> <<(IF is_secure THEN "https" ELSE "http"), "://", "host",
                                "/a/", access_key, "/token">>,
               callback_method |-> "fragment", response_type |-> "token",
               scope |-> "read", expiration |-> "never"]]

\* get_auth_token, lines 157-177
get_auth_token ==
    /\ pc = "handler"
    /\ route = "a"
    /\ \E is_secure \in BOOLEAN :
         IF KeyMismatch
         THEN /\ response' = NotFound
              /\ Step("gate_404")
         ELSE IF config.TRELLO_ACCESS_TOKEN # <<>>
         THEN /\ response' = [status |-> 400, kind |-> "text", body |-> "Token already set"]
              /\ Step("token_set")
         ELSE IF config.TRELLO_ACCESS_KEY # <<>>
         THEN /\ response' = [status |-> 500, kind |-> "text", body |-> "Missing access key"]
              /\ Step("missing_key")
         ELSE /\ response' = AuthorizeRedirect(is_secure)
              /\ Step("redirect")
    /\ pc' = "done"
    /\ UNCHANGED <<config, route, access_key, ics_payload, lists_by_id, cards, idx,
                   string, length, chunks>>

\* the response is sent; the handling unit takes the next request
Respond ==
    /\ pc = "done"
    /\ pc' = "idle"
    /\ UNCHANGED <<config, route, access_key, ics_payload, lists_by_id, cards, idx,
                   response, trace, string, length, chunks>>

InitRequest ==
    /\ pc = "idle"
    /\ route = "c"
    /\ access_key = ""
    /\ ics_payload = <<>>
    /\ lists_by_id = <<>>
    /\ cards = <<>>
    /\ idx = 1
    /\ response = NoResponse
    /\ trace = <<>>

Init ==
    /\ config \in Configs
    /\ InitRequest
    /\ string = <<>>
    /\ length = DescLimit
    /\ chunks = <<>>

Next ==
    \/ Receive(Routes, PathKeys)
    \/ build_ics_begin
    \/ get_lists_by_id(ListSets)
    \/ get_cards(SeqsUpTo(Cards, MaxCards))
    \/ build_ics_card
    \/ build_ics_end
    \/ get_auth_token_callback
    \/ get_auth_token
    \/ Respond

Spec == Init /\ [][Next]_vars

-----------------------------------------------------------------------------
(* chunk_string on its own: the arguments are drawn in the initial state   *)

Alphabet == <<"a", "b", "c", "d", "e", "f", "g">>

\* strings of every length 0..MaxStrLen: one of distinct neighbours, one of
\* a single repeated character
Strings ==
    {[i \in 1..n |-> Alphabet[((i - 1) % 7) + 1]] : n \in 0..MaxStrLen}
    \cup {[i \in 1..n |-> "x"] : n \in 0..MaxStrLen}

FeedConfig ==
    [ICS_KEY |-> <<"k1">>, TRELLO_ACCESS_TOKEN |-> <<"tok">>, TRELLO_ACCESS_KEY |-> <<"ak">>]

ChunkString ==
    /\ chunks = <<>>
    /\ chunks' = <<chunk_string(string, length)>>
    /\ UNCHANGED <<reqVars, string, length>>

InitChunk ==
    /\ config = FeedConfig
    /\ InitRequest
    /\ string \in Strings
    /\ length \in 1..MaxChunkLen
    /\ chunks = <<>>

NextChunk == ChunkString

SpecChunk == InitChunk /\ [][NextChunk]_vars

-----------------------------------------------------------------------------
(* The feed over a wide set of timestamps: one card per answer *)

DateYmds ==
    { <<2023, 2, 28>>, <<2023, 3, 1>>, <<2023, 12, 31>>, <<2024, 1, 1>>,
      <<2024, 2, 28>>, <<2024, 2, 29>>, <<2024, 3, 1>>, <<2024, 3, 8>>,
      <<2000, 2, 29>>, <<2000, 3, 1>>, <<2100, 2, 28>>, <<2100, 3, 1>> }

DateHms == { <<0, 0, 0>>, <<0, 30, 0>>, <<9, 0, 0>>, <<23, 30, 0>>, <<23, 59, 59>> }

\* UTC offsets in minutes: -12:00, -03:30, +00:00, +02:00, +05:45, +14:00
DateOffsets == {-720, -210, 0, 120, 345, 840}

StartStamps ==
    { [wf |-> TRUE, y |-> ymd[1], mo |-> ymd[2], d |-> ymd[3],
       h |-> hms[1], mi |-> hms[2], s |-> hms[3], us |-> us, off |-> off] :
        ymd \in DateYmds, hms \in DateHms, us \in {0, 999999}, off \in DateOffsets }
    \cup {BadStamp}

DueStamps ==
    { Stamp(ymd[1], ymd[2], ymd[3], hms[1], hms[2], hms[3], off) :
        ymd \in { <<2023, 12, 31>>, <<2024, 2, 29>>, <<2024, 3, 10>> },
        hms \in { <<0, 0, 0>>, <<9, 0, 0>>, <<23, 59, 59>> },
        off \in {-720, 0, 840} }

DateCards ==
    { Card(<<"C", "1">>, "L1", <<due>>, start) :
        due \in DueStamps, start \in Opt(StartStamps) }

InitDate ==
    /\ config = FeedConfig
    /\ InitRequest
    /\ string = <<>>
    /\ length = DescLimit
    /\ chunks = <<>>

NextDate ==
    \/ Receive({"c"}, {"k1"})
    \/ build_ics_begin
    \/ get_lists_by_id({ListIds})
    \/ get_cards({<<c>> : c \in DateCards})
    \/ build_ics_card
    \/ build_ics_end
    \/ Respond

SpecDate == InitDate /\ [][NextDate]_vars

-----------------------------------------------------------------------------
(* Reading a feed body and the upstream answer, for the properties below *)

IsCalendar == response.status = 200 /\ response.kind = "calendar"

HasDue(c) == c.due # <<>>

\* the cards of the answer that carry a due value, in the upstream order
DueBearing == SelectSeq(cards, HasDue)

IsBeginEvent(l) == l.tag = "BEGIN" /\ l.val = <<"VEVENT">>

IsEndEvent(l) == l.tag = "END" /\ l.val = <<"VEVENT">>

IsUid(l) == l.tag = "UID"

\* the k-th smallest element of a set of numbers
Nth(S, k) == CHOOSE x \in S : Cardinality({y \in S : y < x}) = k - 1

BeginAt(body) == {i \in 1..Len(body) : IsBeginEvent(body[i])}

EndAt(body) == {i \in 1..Len(body) : IsEndEvent(body[i])}

\* the lines of the k-th VEVENT block of a body
Block(body, k) == SubSeq(body, Nth(BeginAt(body), k), Nth(EndAt(body), k))

TagCount(block, tag) == Cardinality({i \in 1..Len(block) : block[i].tag = tag})

\* the values of the lines of a block that carry a tag
Vals(block, tag) == {block[i].val : i \in {j \in 1..Len(block) : block[j].tag = tag}}

RECURSIVE Balanced(_, _, _)
\* BEGIN:VEVENT and END:VEVENT alternate from line i on, starting inside a
\* block iff open, and no block is left open at the end
Balanced(body, i, open) ==
    IF i > Len(body) THEN ~open
    ELSE IF IsBeginEvent(body[i]) THEN ~open /\ Balanced(body, i + 1, TRUE)
    ELSE IF IsEndEvent(body[i]) THEN open /\ Balanced(body, i + 1, FALSE)
    ELSE Balanced(body, i + 1, open)

CompleteCalendar(body) ==
    /\ Len(body) >= 5
    /\ body[1].tag = "BEGIN" /\ body[1].val = <<"VCALENDAR">>
    /\ body[2].tag = "VERSION" /\ body[2].val = <<"2.0">>
    /\ body[3].tag = "PRODID"
    /\ body[4].tag = "REFRESH-INTERVAL" /\ body[4].val = <<"PT5M">>
    /\ body[Len(body)].tag = "END" /\ body[Len(body)].val = <<"VCALENDAR">>
    /\ \A i \in 2..(Len(body) - 1) :
          ~(body[i].tag \in {"BEGIN", "END"} /\ body[i].val = <<"VCALENDAR">>)
    /\ Balanced(body, 1, FALSE)

\* The calendar reckoning of "the same instant in UTC", day by day: the
\* offset moves the local wall time by less than a day either way.
PrevDay(y, mo, d) ==
    IF d > 1 THEN <<y, mo, d - 1>>
    ELSE IF mo > 1 THEN <<y, mo - 1, DaysInMonth(y, mo - 1)>>
    ELSE <<y - 1, 12, 31>>

NextDay(y, mo, d) ==
    IF d < DaysInMonth(y, mo) THEN <<y, mo, d + 1>>
    ELSE IF mo < 12 THEN <<y, mo + 1, 1>>
    ELSE <<y + 1, 1, 1>>

UtcSecs(t) == t.h * 3600 + t.mi * 60 + t.s - t.off * 60

UtcDay(t) ==
    IF UtcSecs(t) < 0 THEN PrevDay(t.y, t.mo, t.d)
    ELSE IF UtcSecs(t) >= 86400 THEN NextDay(t.y, t.mo, t.d)
    ELSE <<t.y, t.mo, t.d>>

UtcClock(t) ==
    LET r == IF UtcSecs(t) < 0 THEN UtcSecs(t) + 86400
             ELSE IF UtcSecs(t) >= 86400 THEN UtcSecs(t) - 86400
             ELSE UtcSecs(t)
    IN  <<r \div 3600, (r % 3600) \div 60, r % 60>>

\* YYYYMMDDTHHMMSSZ of the instant, and of midnight of its UTC day
UtcInstant(t) == UtcDay(t) \o UtcClock(t)

UtcMidnight(t) == UtcDay(t) \o <<0, 0, 0>>

Upstream == {"lists_ok", "lists_fail", "cards_ok", "cards_fail"}

InTrace(s) == \E i \in 1..Len(trace) : trace[i] = s

-----------------------------------------------------------------------------
(* Properties *)

\* C1: on each of the three routes, a request whose path key differs from
\* the configured ICS_KEY (the empty key and an unset ICS_KEY included) is
\* answered 404, whatever the token and client key configured.
C1_MismatchIsNotFound ==
    (pc = "done" /\ <<access_key>> # config.ICS_KEY)
        => (response.status = 404 /\ \A i \in 1..Len(trace) : trace[i] \notin Upstream)

C1_Witness ==
    /\ pc = "done"
    /\ route = "a_token"
    /\ access_key = ""
    /\ config.ICS_KEY = <<"k1">>
    /\ config.TRELLO_ACCESS_TOKEN = <<>>
    /\ response.status = 404

\* C2: in a successful feed the UID lines are those of the due-bearing
\* cards of the answer, one each, in the upstream order, and there is one
\* VEVENT block per due-bearing card.
C2_EventsAreDueBearingCards ==
    (pc = "done" /\ IsCalendar) =>
        LET uids == SelectSeq(response.body, IsUid) IN
        /\ Len(uids) = Len(DueBearing)
        /\ \A k \in 1..Len(uids) :
              uids[k].val = DueBearing[k].id \o <<"@", "t", "r", "e", "l", "l", "o", ".", "c", "o", "m">>
        /\ Cardinality(BeginAt(response.body)) = Len(DueBearing)
        /\ \A k \in 1..Len(DueBearing) : TagCount(Block(response.body, k), "UID") = 1

C2_Witness ==
    /\ pc = "done"
    /\ IsCalendar
    /\ Len(cards) = 2
    /\ cards[1].due = <<>>
    /\ cards[2].due # <<>>
    /\ Cardinality(BeginAt(response.body)) = 1

\* C3: for a card with a start and a due timestamp, DTSTART is midnight of
\* the UTC calendar day of the start instant and DTEND is the due instant
\* in UTC.
C3_StartIsUtcMidnight ==
    (pc = "done" /\ IsCalendar) =>
        \A k \in 1..Len(DueBearing) :
            DueBearing[k].start # <<>> =>
                /\ Vals(Block(response.body, k), "DTSTART") = {UtcMidnight(DueBearing[k].start[1])}
                /\ Vals(Block(response.body, k), "DTEND") = {UtcInstant(DueBearing[k].due[1])}

\* a start of 00:30 at +02:00 on March 1st of a leap year: the UTC day is
\* February 29th
C3_Witness ==
    /\ pc = "done"
    /\ IsCalendar
    /\ Len(cards) = 1
    /\ cards[1].start # <<>>
    /\ cards[1].start[1].y = 2024 /\ cards[1].start[1].mo = 3 /\ cards[1].start[1].d = 1
    /\ cards[1].start[1].h = 0 /\ cards[1].start[1].mi = 30 /\ cards[1].start[1].off = 120
    /\ cards[1].due[1].off = 840
    /\ Vals(Block(response.body, 1), "DTSTART") = {<<2024, 2, 29, 0, 0, 0>>}

\* C4: every VEVENT carries exactly one of DTEND and DURATION: a card with
\* no start gives DTSTART = due in UTC, DURATION PT1H and no DTEND; a card
\* with a start gives a DTEND and no DURATION.
C4_EndXorDuration ==
    (pc = "done" /\ IsCalendar) =>
        \A k \in 1..Len(DueBearing) :
            LET block == Block(response.body, k)
                card  == DueBearing[k]
            IN  /\ TagCount(block, "DTEND") + TagCount(block, "DURATION") = 1
                /\ TagCount(block, "DTSTART") = 1
                /\ card.start = <<>> =>
                      /\ Vals(block, "DTSTART") = {UtcInstant(card.due[1])}
                      /\ Vals(block, "DURATION") = {<<"P", "T", "1", "H">>}
                      /\ TagCount(block, "DTEND") = 0
                /\ card.start # <<>> =>
                      /\ TagCount(block, "DTEND") = 1
                      /\ TagCount(block, "DURATION") = 0

C4_Witness ==
    /\ pc = "done"
    /\ IsCalendar
    /\ Len(cards) = 2
    /\ cards[1].due # <<>> /\ cards[1].start = <<>>
    /\ cards[2].due # <<>> /\ cards[2].start # <<>>
    /\ TagCount(Block(response.body, 1), "DURATION") = 1
    /\ TagCount(Block(response.body, 2), "DTEND") = 1

\* a card the loop body cannot map: its list is unknown or one of the
\* timestamps it reads does not parse
Unmappable(c) ==
    /\ c.due # <<>>
    /\ \/ c.idList \notin DOMAIN lists_by_id
       \/ ~c.due[1].wf
       \/ (c.start # <<>> /\ ~c.start[1].wf)

FeedFailed ==
    \/ InTrace("lists_fail")
    \/ InTrace("cards_fail")
    \/ (InTrace("cards_ok") /\ \E i \in 1..Len(cards) : Unmappable(cards[i]))

\* C5: a feed request is all-or-nothing: a failed fetch or an unmappable
\* card ends it in a server error without calendar text, and a 200 feed
\* response is a complete VCALENDAR with balanced VEVENT blocks.
C5_AllOrNothing ==
    /\ (pc = "done" /\ route = "c" /\ FeedFailed) =>
          (response.status = 500 /\ response.kind = "error" /\ response.body = <<>>)
    /\ response.kind = "calendar" =>
          (response.status = 200 /\ ~FeedFailed /\ CompleteCalendar(response.body))

C5_Witness ==
    /\ pc = "done"
    /\ route = "c"
    /\ Len(cards) = 2
    /\ ~SkipCard(cards[1]) /\ ~Unmappable(cards[1])
    /\ Unmappable(cards[2])
    /\ Len(ics_payload) > Len(Header)
    /\ response.status = 500

\* C6 as stated: a card of the answer, whichever, that references a list
\* id absent from the fetched lists makes the request a server error.
C6_AnyCardUnknownList ==
    (pc = "done" /\ route = "c" /\ ~KeyMismatch /\ InTrace("cards_ok")
       /\ \E i \in 1..Len(cards) : cards[i].idList \notin DOMAIN lists_by_id)
        => response.status = 500

\* C6 amended: a due-bearing card of the answer, at any position, that
\* references a list id absent from the fetched lists makes the request a
\* server error with no calendar body; a card with no due value is skipped
\* before its list is looked up.
C6_DueCardUnknownList ==
    (pc = "done" /\ route = "c" /\ ~KeyMismatch /\ InTrace("cards_ok")
       /\ \E i \in 1..Len(cards) :
             cards[i].due # <<>> /\ cards[i].idList \notin DOMAIN lists_by_id)
        => (response.status = 500 /\ response.kind = "error")

C6_Witness ==
    /\ pc = "done"
    /\ route = "c"
    /\ InTrace("cards_ok")
    /\ Len(cards) = 2
    /\ cards[1].idList \in DOMAIN lists_by_id
    /\ cards[2].due # <<>> /\ cards[2].due[1].wf
    /\ cards[2].idList \notin DOMAIN lists_by_id
    /\ response.status = 500

\* C7 as stated: with a matching key, GET /a/{key} answers 400 when a token
\* is configured, else 500 when the client key is missing, else the 302
\* redirect carrying the client key and the /a/{key}/token return URL.
C7_AuthOutcome ==
    (pc = "done" /\ route = "a" /\ ~KeyMismatch) =>
        IF config.TRELLO_ACCESS_TOKEN # <<>> THEN response.status = 400
        ELSE IF config.TRELLO_ACCESS_KEY = <<>> THEN response.status = 500
        ELSE /\ response.status = 302
             /\ response.kind = "redirect"
             /\ response.body.key = config.TRELLO_ACCESS_KEY[1]
             /\ SubSeq(response.body.return_url, 4, 6) = <<"/a/", access_key, "/token">>

C9_FragmentsWithinLength ==
    chunks # <<>> => \A k \in 1..Len(chunks[1]) : Len(chunks[1][k]) <= length

\* C10: the steps of a feed request come in the order gate, lists fetch,
\* cards fetch, mapping, each only after every earlier one succeeded, and a
\* mismatching key issues no upstream call.
C10_StepOrder ==
    /\ \A i \in 1..Len(trace) :
          /\ trace[i] \in {"lists_ok", "lists_fail"} => (i = 2 /\ trace[1] = "gate_ok")
          /\ trace[i] \in {"cards_ok", "cards_fail"} =>
                (i = 3 /\ trace[2] = "lists_ok" /\ trace[1] = "gate_ok")
          /\ trace[i] \in {"map", "skip", "map_fail", "finish"} =>
                (i > 3 /\ trace[3] = "cards_ok" /\ trace[2] = "lists_ok"
                       /\ trace[1] = "gate_ok")
    /\ <<access_key>> # config.ICS_KEY =>
          \A i \in 1..Len(trace) : trace[i] \notin Upstream \cup {"map", "skip", "map_fail"}
    /\ Len(ics_payload) > Len(Header) => (InTrace("lists_ok") /\ InTrace("cards_ok"))

C10_Witness ==
    /\ pc = "done"
    /\ Len(trace) = 6
    /\ trace[4] = "map"
    /\ trace[5] = "skip"
    /\ trace[6] = "finish"

====
